---- MODULE Spec2Model ----
(***************************************************************************)
(* A model of the task list of lab9-the-final-warmup: TodoModel            *)
(* (src/src/model/todo-model.js) over StorageService                       *)
(* (src/src/model/storage-service.js) over the browser's localStorage.     *)
(*                                                                         *)
(* Strings are sequences of one-character strings, so that trim() and the  *)
(* escaping done by JSON.stringify act on characters.  What localStorage   *)
(* holds is JSON text, a sequence of tokens, never the in-memory value:    *)
(* save() serialises and load() parses.                                    *)
(***************************************************************************)
EXTENDS Integers, Sequences, FiniteSets, TLC

(***************************************************************************)
(* Bounds of the model.                                                    *)
(***************************************************************************)
\* addTodo is not offered once the counter has passed MaxId.
MaxId == 2
\* subscribe is not offered once MaxListeners callbacks are registered.
MaxListeners == 2
\* localStorage.setItem throws at most MaxFaults times in a behaviour.
MaxFaults == 1
\* The update-todo events one TodoItem emits.
MaxEvents == 3

(***************************************************************************)
(* Inputs.                                                                 *)
(***************************************************************************)
\* The characters String.prototype.trim strips (the ones the inputs use).
WhiteSpace == {" ", "\t"}

\* A JavaScript argument: a string, or undefined (an omitted argument).
Str(s) == [type |-> "string", str |-> s]
Undefined == [type |-> "undefined", str |-> <<>>]

\* The texts passed to addTodo and updateTodo: empty, whitespace only,
\* padded on both sides, and unpadded with a tab inside (which
\* JSON.stringify escapes).
Empty == Str(<<>>)
Blank == Str(<<" ", "\t">>)
Padded == Str(<<" ", "a", "\t">>)
Inner == Str(<<"B", "\t", "c">>)
Texts == {Empty, Blank, Padded, Inner}

\* The priorities passed to addTodo: omitted, or given.  A string the model
\* never looks into is written as a single unit.
PriorityArgs == {Undefined, Str(<<"high">>)}

\* What new Date().toISOString() returns when addTodo runs.
Now == <<"2025-11-05T10:00:00.000Z">>

\* A later value of new Date().toISOString().
Later == <<"2025-11-06T09:30:00.000Z">>

\* The callbacks handed to subscribe: two that return, one that throws.
Callbacks == {"render", "stats", "faulty"}
Throws(callback) == callback = "faulty"

(***************************************************************************)
(* String.prototype.trim                                                   *)
(***************************************************************************)
RECURSIVE TrimStart(_)
TrimStart(s) ==
  IF s # <<>> /\ Head(s) \in WhiteSpace THEN TrimStart(Tail(s)) ELSE s

RECURSIVE TrimEnd(_)
TrimEnd(s) ==
  IF s # <<>> /\ s[Len(s)] \in WhiteSpace
  THEN TrimEnd(SubSeq(s, 1, Len(s) - 1))
  ELSE s

trim(s) == TrimEnd(TrimStart(s))

\* JavaScript truthiness of a text argument: undefined and "" are falsy.
Truthy(text) == text.type = "string" /\ text.str # <<>>

(***************************************************************************)
(* JSON.stringify: a value to JSON text.  JSON text is a sequence of       *)
(* tokens [k, v]: punctuation and the literals true/false carry no         *)
(* payload, a number carries its decimal digits, a string its escaped      *)
(* characters.                                                             *)
(***************************************************************************)
Punct(p) == [k |-> p, v |-> <<>>]

DigitChars == <<"0", "1", "2", "3", "4", "5", "6", "7", "8", "9">>

RECURSIVE Digits(_)
Digits(n) ==
  IF n < 10 THEN <<DigitChars[n + 1]>>
  ELSE Digits(n \div 10) \o <<DigitChars[(n % 10) + 1]>>

RECURSIVE Escape(_)
Escape(s) ==
  IF s = <<>> THEN <<>>
  ELSE (CASE Head(s) = "\t" -> <<"\\", "t">>
          [] Head(s) = "\"" -> <<"\\", "\"">>
          [] Head(s) = "\\" -> <<"\\", "\\">>
          [] OTHER -> <<Head(s)>>) \o Escape(Tail(s))

StringifyNumber(n) == <<[k |-> "num", v |-> Digits(n)]>>
StringifyString(s) == <<[k |-> "str", v |-> Escape(s)]>>
StringifyBoolean(b) == <<Punct(IF b THEN "true" ELSE "false")>>

\* One task object; the keys come in the order addTodo's literal lists them.
StringifyTodo(t) ==
  <<Punct("{")>>
  \o StringifyString(<<"id">>) \o <<Punct(":")>> \o StringifyNumber(t.id)
  \o <<Punct(",")>>
  \o StringifyString(<<"text">>) \o <<Punct(":")>> \o StringifyString(t.text)
  \o <<Punct(",")>>
  \o StringifyString(<<"completed">>) \o <<Punct(":")>>
  \o StringifyBoolean(t.completed)
  \o <<Punct(",")>>
  \o StringifyString(<<"priority">>) \o <<Punct(":")>>
  \o StringifyString(t.priority)
  \o <<Punct(",")>>
  \o StringifyString(<<"createdAt">>) \o <<Punct(":")>>
  \o StringifyString(t.createdAt)
  \o <<Punct("}")>>

RECURSIVE StringifyElements(_)
StringifyElements(ts) ==
  IF ts = <<>> THEN <<>>
  ELSE IF Len(ts) = 1 THEN StringifyTodo(ts[1])
  ELSE StringifyTodo(ts[1]) \o <<Punct(",")>> \o StringifyElements(Tail(ts))

StringifyTodos(ts) == <<Punct("[")>> \o StringifyElements(ts) \o <<Punct("]")>>

\* A value handed to JSON.stringify: the task array or the counter.
Arr(ts) == [type |-> "array", val |-> ts]
Num(n) == [type |-> "number", val |-> n]

JSONstringify(data) ==
  IF data.type = "number" THEN StringifyNumber(data.val)
  ELSE StringifyTodos(data.val)

(***************************************************************************)
(* JSON.parse: JSON text to a value.  A parse step returns                 *)
(* [ok, val, rest]: whether a value was read, the value, and the tokens    *)
(* after it.  An object parses to a record over the keys it lists, an      *)
(* array to a sequence.                                                    *)
(***************************************************************************)
RECURSIVE Number(_)
Number(ds) ==
  IF ds = <<>> THEN 0
  ELSE Number(SubSeq(ds, 1, Len(ds) - 1)) * 10
       + (CHOOSE d \in 0..9 : DigitChars[d + 1] = ds[Len(ds)])

RECURSIVE Unescape(_)
Unescape(s) ==
  IF s = <<>> THEN <<>>
  ELSE IF Head(s) = "\\" /\ Len(s) >= 2
       THEN <<(IF s[2] = "t" THEN "\t" ELSE s[2])>> \o Unescape(Tail(Tail(s)))
       ELSE <<Head(s)>> \o Unescape(Tail(s))

SyntaxError == [ok |-> FALSE, val |-> <<>>, rest |-> <<>>]
Parsed(val, rest) == [ok |-> TRUE, val |-> val, rest |-> rest]

\* A property name, written as a single unit, names a record field.
PropertyName(s) == s[1]

RECURSIVE ParseValue(_)
RECURSIVE ParseMembers(_, _)
RECURSIVE ParseElementsFrom(_, _)

\* key : value { , key : value } "}" ; obj is the record read so far.
ParseMembers(toks, obj) ==
  IF Len(toks) < 3 \/ toks[1].k # "str" \/ toks[2].k # ":" THEN SyntaxError
  ELSE LET key == PropertyName(Unescape(toks[1].v))
           m == ParseValue(SubSeq(toks, 3, Len(toks)))
       IN IF ~m.ok \/ m.rest = <<>> THEN SyntaxError
          ELSE LET next == [x \in DOMAIN obj \cup {key} |->
                              IF x = key THEN m.val ELSE obj[x]]
               IN IF Head(m.rest).k = "}" THEN Parsed(next, Tail(m.rest))
                  ELSE IF Head(m.rest).k = ","
                       THEN ParseMembers(Tail(m.rest), next)
                       ELSE SyntaxError

\* value { , value } "]" ; acc is the sequence read so far.
ParseElementsFrom(toks, acc) ==
  LET e == ParseValue(toks)
  IN IF ~e.ok \/ e.rest = <<>> THEN SyntaxError
     ELSE IF Head(e.rest).k = "]" THEN Parsed(Append(acc, e.val), Tail(e.rest))
     ELSE IF Head(e.rest).k = ","
          THEN ParseElementsFrom(Tail(e.rest), Append(acc, e.val))
          ELSE SyntaxError

ParseValue(toks) ==
  IF toks = <<>> THEN SyntaxError
  ELSE LET t == Head(toks)
           rest == Tail(toks)
       IN CASE t.k = "num" -> Parsed(Number(t.v), rest)
            [] t.k = "str" -> Parsed(Unescape(t.v), rest)
            [] t.k = "true" -> Parsed(TRUE, rest)
            [] t.k = "false" -> Parsed(FALSE, rest)
            [] t.k = "[" ->
                 IF rest # <<>> /\ Head(rest).k = "]"
                 THEN Parsed(<<>>, Tail(rest))
                 ELSE ParseElementsFrom(rest, <<>>)
            [] t.k = "{" ->
                 IF rest # <<>> /\ Head(rest).k = "}"
                 THEN Parsed(<<>>, Tail(rest))
                 ELSE ParseMembers(rest, <<>>)
            [] OTHER -> SyntaxError

\* JSON.parse(text): the value, or a SyntaxError when the text is not
\* exactly one JSON value.
JSONparse(text) ==
  LET p == ParseValue(text)
  IN IF p.ok /\ p.rest = <<>> THEN p ELSE SyntaxError

(***************************************************************************)
(* localStorage and StorageService                                         *)
(***************************************************************************)
\* The prefix of the default StorageService.
storageKey == "todos"

\* `${this.storageKey}_${key}`
FullKey(prefix, key) == <<prefix, "_", key>>

\* The entries of localStorage the model can touch.
LocalStorageKeys == {FullKey(storageKey, "items"), FullKey(storageKey, "nextId")}

\* localStorage.getItem returns null for an entry that is not there.
Null == [present |-> FALSE, text |-> <<>>]
Item(text) == [present |-> TRUE, text |-> text]

EmptyLocalStorage == [k \in LocalStorageKeys |-> Null]

\* Mutant: the catch block removing the entry, as in
\* localStorage.removeItem(fullKey)
StorageSaveRemovesOnThrow(ls, key, data, setItemOk) ==
  IF setItemOk
  THEN [ls EXCEPT ![FullKey(storageKey, key)] = Item(JSONstringify(data))]
  ELSE [ls EXCEPT ![FullKey(storageKey, key)] = Null]

\* StorageService.save(key, data).  setItemOk says whether
\* localStorage.setItem returns (TRUE) or throws, as it does when the quota
\* is exceeded; the catch block swallows the exception.
StorageSave(ls, key, data, setItemOk) ==
  IF setItemOk
  THEN [ls EXCEPT ![FullKey(storageKey, key)] = Item(JSONstringify(data))]
  ELSE ls

\* StorageService.load(key, defaultValue)
StorageLoad(ls, key, defaultValue) ==
  LET item == ls[FullKey(storageKey, key)]
      p == JSONparse(item.text)
  IN IF ~item.present THEN defaultValue
     ELSE IF p.ok THEN p.val ELSE defaultValue

(***************************************************************************)
(* TodoModel                                                               *)
(***************************************************************************)
VARIABLES
  todos,         \* this.todos: the task list, in insertion order
  nextId,        \* this.nextId: the id the next addTodo issues
  listeners,     \* this.listeners: the callbacks, in registration order
  localStorage,  \* the browser's store: full key -> Null or JSON text
  faults,        \* how many times localStorage.setItem has thrown
  lastOp,        \* the last call on the model and what it was seen to do
  issued,        \* history: every id addTodo has issued
  toggleRun,     \* history: the run of toggleComplete calls on one id, each
                 \* of which found its task, that the last call ended
  other,         \* a second TodoModel on the same store (another tab)
  app,           \* TodoApp: whether it is constructed, and its this.todos
  item           \* a TodoItem: isEditing, editValue, the events it emitted

vars ==
  <<todos, nextId, listeners, localStorage, faults, lastOp, issued,
    toggleRun, other, app, item>>

\* The ids passed to toggleComplete, deleteTodo and updateTodo: every id
\* the model can issue, and one it never has.
Ids == 1..(MaxId + 1)

\* The task addTodo builds; priority = 'medium' is the parameter's default.
DefaultPriority(priority) ==
  IF priority.type = "undefined" THEN <<"medium">> ELSE priority.str

\* Mutant: the guard without trim(), as in  if (!text) return;
IsBlankNoTrim(text) == ~Truthy(text)

\* addTodo's guard: !text || text.trim() === ''
IsBlank(text) == ~Truthy(text) \/ trim(text.str) = <<>>

\* Mutant: the id taken without the increment, as in  id: this.nextId
PostIncrementStuck(n) == n

\* this.nextId++ leaves the counter one higher.
PostIncrement(n) == n + 1

\* Mutant: the text stored as passed, as in  text: text
NewTodoUntrimmed(id, text, priority, now) ==
  [ id |-> id,
    text |-> text.str,
    completed |-> FALSE,
    priority |-> DefaultPriority(priority),
    createdAt |-> now ]

NewTodo(id, text, priority, now) ==
  [ id |-> id,
    text |-> trim(text.str),
    completed |-> FALSE,
    priority |-> DefaultPriority(priority),
    createdAt |-> now ]

\* Mutant: find() falling back to the first task when nothing matches.
FindOrFirst(ts, id) ==
  IF \E i \in 1..Len(ts) : ts[i].id = id
  THEN CHOOSE i \in 1..Len(ts) :
         ts[i].id = id /\ \A j \in 1..(i - 1) : ts[j].id # id
  ELSE IF ts # <<>> THEN 1 ELSE 0

\* this.todos.find(t => t.id === id): the index of the first match, 0 for
\* undefined.
Find(ts, id) ==
  IF \E i \in 1..Len(ts) : ts[i].id = id
  THEN CHOOSE i \in 1..Len(ts) :
         ts[i].id = id /\ \A j \in 1..(i - 1) : ts[j].id # id
  ELSE 0

\* The lists the mutating methods leave; Array.prototype.filter is SelectSeq.

\* Mutant: the flag set instead of flipped, as in  todo.completed = true
ToggledSetsTrue(ts, i) == [ts EXCEPT ![i].completed = TRUE]

\* Mutant: toggleComplete stamping the task, as in
\* todo.createdAt = new Date().toISOString()
ToggledRestamped(ts, i) ==
  [ts EXCEPT ![i].completed = ~ts[i].completed, ![i].createdAt = Later]

Toggled(ts, i) == [ts EXCEPT ![i].completed = ~ts[i].completed]

\* Mutant: the text stored as passed, as in  todo.text = newText
UpdatedUntrimmed(ts, i, newText) == [ts EXCEPT ![i].text = newText.str]

\* Mutant: the text assigned to the first task, not to the one found.
UpdatedFirst(ts, i, newText) == [ts EXCEPT ![1].text = trim(newText.str)]

Updated(ts, i, newText) == [ts EXCEPT ![i].text = trim(newText.str)]

\* Mutant: the filter written with  t.id > id
DeletedUpTo(ts, id) == LET keep(t) == t.id > id IN SelectSeq(ts, keep)

Deleted(ts, id) == LET keep(t) == t.id # id IN SelectSeq(ts, keep)

\* Mutant: the filter written with  t.completed, keeping the wrong half.
WithoutActive(ts) == LET keep(t) == t.completed IN SelectSeq(ts, keep)

WithoutCompleted(ts) == LET keep(t) == ~t.completed IN SelectSeq(ts, keep)

\* get activeCount / get completedCount
activeCount == LET keep(t) == ~t.completed IN Len(SelectSeq(todos, keep))

\* Mutant: completedCount returning  this.todos.length
completedCountTotal == Len(todos)

completedCount == LET keep(t) == t.completed IN Len(SelectSeq(todos, keep))

\* String.prototype.toLowerCase, on the letters of the texts and queries.
toLowerCase(s) ==
  [i \in 1..Len(s) |->
     CASE s[i] = "A" -> "a"
       [] s[i] = "B" -> "b"
       [] s[i] = "C" -> "c"
       [] OTHER -> s[i]]

\* String.prototype.includes
includes(s, term) ==
  \E k \in 0..(Len(s) - Len(term)) : SubSeq(s, k + 1, k + Len(term)) = term

\* Mutant: search without the two toLowerCase calls.
SearchCaseSensitive(ts, query) ==
  LET q == IF query = Undefined THEN Str(<<>>) ELSE query
      keep(t) == includes(t.text, q.str)
  IN IF ~Truthy(q) THEN ts ELSE SelectSeq(ts, keep)

\* search(query = ''): what it returns on the list ts.
Search(ts, query) ==
  LET q == IF query = Undefined THEN Str(<<>>) ELSE query
      term == toLowerCase(q.str)
      keep(t) == includes(toLowerCase(t.text), term)
  IN IF ~Truthy(q) THEN ts ELSE SelectSeq(ts, keep)

\* Mutant: save() without its second line, the counter never written.
ModelSaveItemsOnly(ls, ts, n, itemsOk, nextIdOk) ==
  StorageSave(ls, "items", Arr(ts), itemsOk)

\* TodoModel.save(): the list, then the counter, each a setItem that
\* returns or throws on its own.
\* Mutant: save() keeping the stored tasks that the list does not have.
ModelSaveMerged(ls, ts, n, itemsOk, nextIdOk) ==
  LET absent(t) == \A i \in 1..Len(ts) : ts[i].id # t.id
      merged == SelectSeq(StorageLoad(ls, "items", <<>>), absent) \o ts
  IN StorageSave(StorageSave(ls, "items", Arr(merged), itemsOk),
                 "nextId", Num(n), nextIdOk)

ModelSave(ls, ts, n, itemsOk, nextIdOk) ==
  StorageSave(StorageSave(ls, "items", Arr(ts), itemsOk),
              "nextId", Num(n), nextIdOk)

\* One call of a callback: it gets no arguments, and what it would read
\* from the model and the store while it runs.
Call(callback, ts, n, ls) ==
  [callback |-> callback, args |-> <<>>, todos |-> ts, nextId |-> n,
   localStorage |-> ls]

\* Mutant: the callbacks run last registered first.
RECURSIVE NotifyLastFirst(_, _, _, _)
NotifyLastFirst(ls, ts, n, store) ==
  IF ls = <<>> THEN <<>>
  ELSE <<Call(ls[Len(ls)], ts, n, store)>>
       \o (IF Throws(ls[Len(ls)]) THEN <<>>
           ELSE NotifyLastFirst(SubSeq(ls, 1, Len(ls) - 1), ts, n, store))

\* Mutant: every callback run in a try/catch of its own.
NotifyIsolated(ls, ts, n, store) ==
  [i \in 1..Len(ls) |-> Call(ls[i], ts, n, store)]

\* TodoModel.notify(): forEach runs the callbacks in order and stops at the
\* first that throws, which it lets through.
RECURSIVE Notify(_, _, _, _)
Notify(ls, ts, n, store) ==
  IF ls = <<>> THEN <<>>
  ELSE <<Call(Head(ls), ts, n, store)>>
       \o (IF Throws(Head(ls)) THEN <<>> ELSE Notify(Tail(ls), ts, n, store))

NotifyThrows(ls) == \E i \in 1..Len(ls) : Throws(ls[i])

\* Mutant: the counter not read back, every model starting at 1.
ConstructedCounterAtOne(ls) ==
  [ todos |-> StorageLoad(ls, "items", <<>>), nextId |-> 1 ]

\* new TodoModel(storageService): what the constructor reads from the store.
Constructed(ls) ==
  [ todos |-> StorageLoad(ls, "items", <<>>),
    nextId |-> StorageLoad(ls, "nextId", 1) ]

\* What lastOp records of a call.
Op(name, id, text, priority, now) ==
  [ op |-> name, id |-> id, text |-> text, priority |-> priority,
    now |-> now,
    mutated |-> FALSE,   \* the call reached save() and notify()
    wrote |-> <<>>,      \* whether each setItem of save() returned
    calls |-> <<>>,      \* the callbacks notify() ran, in order
    ret |-> "returned",  \* "returned", or "threw" to the caller
    result |-> <<>> ]    \* the list search() returns

NoInstant == <<>>

\* A run of toggleComplete(id) calls that found the task: the id, how many
\* calls so far (1 or 2: a third call starts the next run) and the list
\* before the first of them.
NoRun == [id |-> 0, n |-> 0, start |-> <<>>]

ToggleRun(id) ==
  IF toggleRun.n = 1 /\ toggleRun.id = id
  THEN [toggleRun EXCEPT !.n = 2]
  ELSE [id |-> id, n |-> 1, start |-> todos]

\* setItem may throw while the fault budget lasts.
CanFail(itemsOk, nextIdOk) ==
  faults + (IF itemsOk THEN 0 ELSE 1) + (IF nextIdOk THEN 0 ELSE 1) <= MaxFaults

Failures(itemsOk, nextIdOk) ==
  (IF itemsOk THEN 0 ELSE 1) + (IF nextIdOk THEN 0 ELSE 1)

\* No second tab is open.
NoTab == [open |-> FALSE, todos |-> <<>>, nextId |-> 0]

\* The TodoItem constructor: this.isEditing = false; this.editValue = ''
TodoItem == [isEditing |-> FALSE, editValue |-> <<>>, events |-> <<>>]

\* No TodoApp is constructed on the model.
NoApp == [mounted |-> FALSE, alias |-> FALSE, todos |-> <<>>]

\* What TodoApp's this.todos reads as: until the first notification it is
\* the model's own array (this.todos = this.model.todos), afterwards a copy.
AppTodos == IF app.alias THEN todos ELSE app.todos

\* The methods that assign a new array to this.todos of the model; the others
\* change the array, or a task in it, in place.
Reassigns(name) == name \in {"deleteTodo", "clearCompleted", "clearAll"}

\* A copied array holds the task objects of the model: a task changed in
\* place reads as changed through the copy too.
SharedTasks(copy, ts) ==
  [i \in 1..Len(copy) |->
     IF Find(ts, copy[i].id) # 0 THEN ts[Find(ts, copy[i].id)] ELSE copy[i]]

\* Mutant: the TodoApp constructor without its this.model.subscribe(...).
AppAfterUnsubscribed(a, name, old, new, calls) ==
  IF ~a.mounted THEN a
  ELSE IF a.alias
       THEN IF Reassigns(name)
            THEN [a EXCEPT !.alias = FALSE, !.todos = old]
            ELSE a
       ELSE [a EXCEPT !.todos = SharedTasks(a.todos, new)]

\* TodoApp after a mutating method of its model: its callback, when
\* notify() reached it, has assigned [...this.model.todos]; when not, it
\* holds the array it held.
AppAfter(a, name, old, new, calls) ==
  IF ~a.mounted THEN a
  ELSE IF \E i \in 1..Len(calls) : calls[i].callback = "controller"
       THEN [a EXCEPT !.alias = FALSE, !.todos = new]
       ELSE IF a.alias
            THEN IF Reassigns(name)
                 THEN [a EXCEPT !.alias = FALSE, !.todos = old]
                 ELSE a
            ELSE [a EXCEPT !.todos = SharedTasks(a.todos, new)]

\* Mutant: the two lines swapped, this.notify() before this.save().
NotifyThenSave(op, ts, n, itemsOk, nextIdOk) ==
  /\ todos' = ts
  /\ nextId' = n
  /\ localStorage' = ModelSave(localStorage, todos', nextId', itemsOk, nextIdOk)
  /\ faults' = faults + Failures(itemsOk, nextIdOk)
  /\ lastOp' = [op EXCEPT !.mutated = TRUE,
                          !.wrote = <<itemsOk, nextIdOk>>,
                          !.calls = Notify(listeners, todos', nextId',
                                           localStorage),
                          !.ret = IF NotifyThrows(listeners)
                                  THEN "threw" ELSE "returned"]
  /\ app' = AppAfter(app, op.op, todos, todos', lastOp'.calls)
  /\ UNCHANGED <<listeners, other, item>>

\* The tail of every mutating method, after the in-memory change:
\* this.save(); this.notify();
SaveAndNotify(op, ts, n, itemsOk, nextIdOk) ==
  /\ todos' = ts
  /\ nextId' = n
  /\ localStorage' = ModelSave(localStorage, todos', nextId', itemsOk, nextIdOk)
  /\ faults' = faults + Failures(itemsOk, nextIdOk)
  /\ lastOp' = [op EXCEPT !.mutated = TRUE,
                          !.wrote = <<itemsOk, nextIdOk>>,
                          !.calls = Notify(listeners, todos', nextId',
                                           localStorage'),
                          !.ret = IF NotifyThrows(listeners)
                                  THEN "threw" ELSE "returned"]
  /\ app' = AppAfter(app, op.op, todos, todos', lastOp'.calls)
  /\ UNCHANGED <<listeners, other, item>>

\* A method that returns before changing anything.  No setItem runs, so no outcome of one is drawn.
NoOp(op, itemsOk, nextIdOk) ==
  /\ itemsOk /\ nextIdOk
  /\ lastOp' = op
  /\ UNCHANGED <<todos, nextId, listeners, localStorage, faults>>
  /\ UNCHANGED <<other, app, item>>

Init ==
  /\ localStorage = EmptyLocalStorage
  /\ todos = Constructed(EmptyLocalStorage).todos
  /\ nextId = Constructed(EmptyLocalStorage).nextId
  /\ listeners = <<>>
  /\ faults = 0
  /\ lastOp = Op("constructor", 0, Undefined, Undefined, NoInstant)
  /\ issued = {}
  /\ toggleRun = NoRun
  /\ other = NoTab
  /\ app = NoApp
  /\ item = TodoItem

subscribe(listener) ==
  /\ Len(listeners) < MaxListeners
  /\ listeners' = Append(listeners, listener)
  /\ lastOp' = Op("subscribe", 0, Undefined, Undefined, NoInstant)
  /\ toggleRun' = NoRun
  /\ UNCHANGED <<todos, nextId, localStorage, faults, issued>>
  /\ UNCHANGED <<other, app, item>>

addTodo(text, priority, now, itemsOk, nextIdOk) ==
  LET op == Op("addTodo", 0, text, priority, now)
  IN IF IsBlank(text)
     THEN /\ NoOp(Op("addTodo", 0, text, priority, NoInstant),
                  itemsOk, nextIdOk)
          /\ toggleRun' = NoRun
          /\ UNCHANGED issued
     ELSE /\ nextId <= MaxId
          /\ CanFail(itemsOk, nextIdOk)
          /\ SaveAndNotify(op,
                           Append(todos, NewTodo(nextId, text, priority, now)),
                           PostIncrement(nextId), itemsOk, nextIdOk)
          /\ issued' = issued \cup {nextId}
          /\ toggleRun' = NoRun

toggleComplete(id, itemsOk, nextIdOk) ==
  LET op == Op("toggleComplete", id, Undefined, Undefined, NoInstant)
      i == Find(todos, id)
  IN IF i # 0
     THEN /\ CanFail(itemsOk, nextIdOk)
          /\ SaveAndNotify(op, Toggled(todos, i), nextId, itemsOk, nextIdOk)
          /\ toggleRun' = ToggleRun(id)
          /\ UNCHANGED issued
     ELSE /\ NoOp(op, itemsOk, nextIdOk)
          /\ toggleRun' = NoRun
          /\ UNCHANGED issued

\* Mutant: deleteTodo returning early when no task has the id.
deleteTodoIfFound(id, itemsOk, nextIdOk) ==
  LET op == Op("deleteTodo", id, Undefined, Undefined, NoInstant)
  IN IF Find(todos, id) = 0
     THEN /\ NoOp(op, itemsOk, nextIdOk)
          /\ toggleRun' = NoRun
          /\ UNCHANGED issued
     ELSE /\ CanFail(itemsOk, nextIdOk)
          /\ SaveAndNotify(op, Deleted(todos, id), nextId, itemsOk, nextIdOk)
          /\ toggleRun' = NoRun
          /\ UNCHANGED issued

deleteTodo(id, itemsOk, nextIdOk) ==
  /\ CanFail(itemsOk, nextIdOk)
  /\ SaveAndNotify(Op("deleteTodo", id, Undefined, Undefined, NoInstant),
                   Deleted(todos, id), nextId, itemsOk, nextIdOk)
  /\ toggleRun' = NoRun
  /\ UNCHANGED issued

\* Mutant: updateTodo with save() and notify() after the if, not inside it.
updateTodoAlwaysSaves(id, newText, itemsOk, nextIdOk) ==
  LET op == Op("updateTodo", id, newText, Undefined, NoInstant)
      i == Find(todos, id)
  IN /\ CanFail(itemsOk, nextIdOk)
     /\ SaveAndNotify(op,
                      IF i # 0 /\ ~IsBlank(newText)
                      THEN Updated(todos, i, newText) ELSE todos,
                      nextId, itemsOk, nextIdOk)
     /\ toggleRun' = NoRun
     /\ UNCHANGED issued

updateTodo(id, newText, itemsOk, nextIdOk) ==
  LET op == Op("updateTodo", id, newText, Undefined, NoInstant)
      i == Find(todos, id)
  IN IF i # 0 /\ ~IsBlank(newText)
     THEN /\ CanFail(itemsOk, nextIdOk)
          /\ SaveAndNotify(op, Updated(todos, i, newText), nextId,
                           itemsOk, nextIdOk)
          /\ toggleRun' = NoRun
          /\ UNCHANGED issued
     ELSE /\ NoOp(op, itemsOk, nextIdOk)
          /\ toggleRun' = NoRun
          /\ UNCHANGED issued

clearCompleted(itemsOk, nextIdOk) ==
  /\ CanFail(itemsOk, nextIdOk)
  /\ SaveAndNotify(Op("clearCompleted", 0, Undefined, Undefined, NoInstant),
                   WithoutCompleted(todos), nextId, itemsOk, nextIdOk)
  /\ toggleRun' = NoRun
  /\ UNCHANGED issued

\* Mutant: clearAll starting the ids over, as in  this.nextId = 1
ClearAllNextIdReset(n) == 1

\* clearAll assigns this.todos only: this.nextId stays.
ClearAllNextId(n) == n

\* Mutant: clearAll returning early on an empty list.
clearAllIfAny(itemsOk, nextIdOk) ==
  LET op == Op("clearAll", 0, Undefined, Undefined, NoInstant)
  IN IF todos = <<>>
     THEN /\ NoOp(op, itemsOk, nextIdOk)
          /\ toggleRun' = NoRun
          /\ UNCHANGED issued
     ELSE /\ CanFail(itemsOk, nextIdOk)
          /\ SaveAndNotify(op, <<>>, ClearAllNextId(nextId), itemsOk, nextIdOk)
          /\ toggleRun' = NoRun
          /\ UNCHANGED issued

clearAll(itemsOk, nextIdOk) ==
  /\ CanFail(itemsOk, nextIdOk)
  /\ SaveAndNotify(Op("clearAll", 0, Undefined, Undefined, NoInstant),
                   <<>>, ClearAllNextId(nextId), itemsOk, nextIdOk)
  /\ toggleRun' = NoRun
  /\ UNCHANGED issued

\* new TodoModel(storageService) on the store as it is: the page reloaded.
construct ==
  /\ todos' = Constructed(localStorage).todos
  /\ nextId' = Constructed(localStorage).nextId
  /\ listeners' = <<>>
  /\ lastOp' = Op("constructor", 0, Undefined, Undefined, NoInstant)
  /\ toggleRun' = NoRun
  /\ UNCHANGED <<localStorage, faults, issued, other, app, item>>

(***************************************************************************)
(* StorageService, for any prefix.  A prefix and a key are sequences of    *)
(* pieces of text; the full key is their concatenation around "_".         *)
(***************************************************************************)
fullKey(prefix, key) == prefix \o <<"_">> \o key

\* String.prototype.startsWith
startsWith(k, prefix) ==
  Len(k) >= Len(prefix) /\ SubSeq(k, 1, Len(prefix)) = prefix

\* The instances: new StorageService() and new StorageService('todosX').
Prefixes == {<<storageKey>>, <<storageKey, "X">>}
Keys == {<<"items">>, <<"nextId">>}
RawKeys == {fullKey(prefix, key) : prefix \in Prefixes, key \in Keys}

\* The values saved, and the defaultValue passed to load.
Data == {Num(1), Num(2)}
DefaultValue == -1

\* A stored text JSON.parse throws on.
Malformed == <<Punct("[")>>

\* The test of clear():  key && key.startsWith(prefix)
MatchesPrefix(k, prefix) == startsWith(k, prefix)

\* Mutant: the methods without try/catch.
Uncaught(ok) == IF ok THEN "returned" ELSE "threw"

\* Every method body is inside try { } catch { console.error(...) }: the
\* method returns whether or not the call on localStorage threw.
Caught(ok) == "returned"

\* What lastOp records of a call on a StorageService.
AdapterOp(name, prefix, key, ok) ==
  [ op |-> name, prefix |-> prefix, key |-> key, ok |-> ok,
    ret |-> Caught(ok), result |-> DefaultValue, removed |-> {} ]

AdapterFrame ==
  /\ toggleRun' = NoRun
  /\ UNCHANGED <<todos, nextId, listeners, faults, issued, other, app, item>>

\* save(key, data)
save(prefix, key, data, setItemOk) ==
  /\ localStorage' =
       IF setItemOk
       THEN [localStorage EXCEPT
               ![fullKey(prefix, key)] = Item(JSONstringify(data))]
       ELSE localStorage
  /\ lastOp' = AdapterOp("save", prefix, key, setItemOk)
  /\ AdapterFrame

\* load(key, defaultValue)
load(prefix, key, getItemOk) ==
  LET entry == localStorage[fullKey(prefix, key)]
      p == JSONparse(entry.text)
  IN /\ lastOp' = [AdapterOp("load", prefix, key, getItemOk) EXCEPT
                     !.result = IF getItemOk /\ entry.present /\ p.ok
                                THEN p.val ELSE DefaultValue]
     /\ UNCHANGED localStorage
     /\ AdapterFrame

\* remove(key)
remove(prefix, key, removeItemOk) ==
  /\ localStorage' =
       IF removeItemOk
       THEN [localStorage EXCEPT ![fullKey(prefix, key)] = Null]
       ELSE localStorage
  /\ lastOp' = AdapterOp("remove", prefix, key, removeItemOk)
  /\ AdapterFrame

\* clear(): the keys that pass the test are collected, then removed one by
\* one; a call on localStorage that throws ends it with some of them
\* removed.
clear(prefix, removed, ok) ==
  LET keysToRemove ==
        {k \in RawKeys : localStorage[k].present /\ MatchesPrefix(k, prefix)}
  IN /\ removed \subseteq keysToRemove
     /\ ok => removed = keysToRemove
     /\ localStorage' =
          [k \in RawKeys |-> IF k \in removed THEN Null ELSE localStorage[k]]
     /\ lastOp' = [AdapterOp("clear", prefix, <<>>, ok) EXCEPT
                     !.removed = removed]
     /\ AdapterFrame

(***************************************************************************)
(* TodoItem: the view of one task, shown or edited in place.               *)
(***************************************************************************)
\* The task the item shows (.todo).
ItemTodo == NewTodo(1, Padded, Undefined, Now)

\* What the user may have typed into the edit field.
EditValues == {Empty.str, Blank.str, Padded.str, Inner.str}

\* The keys of a keydown event on the edit field.
EventKeys == {"Enter", "Escape", "a"}

\* handleEdit()
EditStarted(it) == [it EXCEPT !.isEditing = TRUE, !.editValue = ItemTodo.text]

\* Mutant: handleSave leaving edit mode whatever the text.
SavedAlwaysCloses(it) ==
  LET trimmed == trim(it.editValue)
  IN IF trimmed # <<>>
     THEN [it EXCEPT !.events = Append(@, [ type |-> "update-todo",
                                            id |-> ItemTodo.id,
                                            text |-> trimmed ]),
                     !.isEditing = FALSE]
     ELSE [it EXCEPT !.isEditing = FALSE]

\* handleSave()
Saved(it) ==
  LET trimmed == trim(it.editValue)
  IN IF trimmed # <<>>
     THEN [it EXCEPT !.events = Append(@, [ type |-> "update-todo",
                                            id |-> ItemTodo.id,
                                            text |-> trimmed ]),
                     !.isEditing = FALSE]
     ELSE it

\* handleCancel()
Cancelled(it) == [it EXCEPT !.isEditing = FALSE, !.editValue = <<>>]

\* A handler of the item ran; the model is not involved.
ItemStep(name, key, it) ==
  /\ item' = it
  /\ lastOp' = Op(name, 0, key, Undefined, NoInstant)
  /\ toggleRun' = NoRun
  /\ UNCHANGED <<todos, nextId, listeners, localStorage, faults, issued,
                 other, app>>

\* render() shows the Edit button while the item is not edited, and the
\* field with Save and Cancel while it is.
handleEdit ==
  /\ ~item.isEditing
  /\ ItemStep("handleEdit", Undefined, EditStarted(item))

\* @input=${e => (this.editValue = e.target.value)}
input(value) ==
  /\ item.isEditing
  /\ ItemStep("input", Undefined, [item EXCEPT !.editValue = value])

handleSave ==
  /\ item.isEditing
  /\ Len(item.events) < MaxEvents
  /\ ItemStep("handleSave", Undefined, Saved(item))

handleCancel ==
  /\ item.isEditing
  /\ ItemStep("handleCancel", Undefined, Cancelled(item))

handleKeyDown(key) ==
  /\ item.isEditing
  /\ Len(item.events) < MaxEvents
  /\ ItemStep("handleKeyDown", Str(<<key>>),
              IF key = "Enter" THEN Saved(item)
              ELSE IF key = "Escape" THEN Cancelled(item)
              ELSE item)

\* A second tab opens the page: another TodoModel constructed on the store.
openTab ==
  /\ ~other.open
  /\ other' = [ open |-> TRUE,
                todos |-> Constructed(localStorage).todos,
                nextId |-> Constructed(localStorage).nextId ]
  /\ lastOp' = Op("openTab", 0, Undefined, Undefined, NoInstant)
  /\ toggleRun' = NoRun
  /\ UNCHANGED <<todos, nextId, listeners, localStorage, faults, issued,
                 app, item>>

\* The user turns to the other tab: from here on the calls go to its model.
\* Neither model reads the store.
switchTab ==
  /\ other.open
  /\ todos' = other.todos
  /\ nextId' = other.nextId
  /\ other' = [open |-> TRUE, todos |-> todos, nextId |-> nextId]
  /\ lastOp' = Op("switchTab", 0, Undefined, Undefined, NoInstant)
  /\ toggleRun' = NoRun
  /\ UNCHANGED <<listeners, localStorage, faults, issued, app, item>>

\* Texts that another script, or another version of the page, left under the
\* two keys: JSON that parses, of the shape the model writes and of others.
ObjectText ==
  << Punct("{"), [k |-> "str", v |-> <<"a">>], Punct(":"),
     [k |-> "num", v |-> <<"1">>], Punct("}") >>

StoredTexts ==
  [ items |-> { StringifyTodos(<<>>),
                StringifyTodos(<<NewTodo(1, Padded, Undefined, Now)>>),
                ObjectText },
    nextId |-> { StringifyNumber(2), StringifyNumber(0) } ]

\* localStorage.setItem(fullKey, text) called by a script other than the
\* model's StorageService.
setItem(key, text) ==
  /\ localStorage' = [localStorage EXCEPT ![FullKey(storageKey, key)] = Item(text)]
  /\ lastOp' = Op("setItem", 0, Undefined, Undefined, NoInstant)
  /\ toggleRun' = NoRun
  /\ UNCHANGED <<todos, nextId, listeners, faults, issued, other, app, item>>

\* localStorage.removeItem(fullKey), likewise.
removeItem(key) ==
  /\ localStorage' = [localStorage EXCEPT ![FullKey(storageKey, key)] = Null]
  /\ lastOp' = Op("removeItem", 0, Undefined, Undefined, NoInstant)
  /\ toggleRun' = NoRun
  /\ UNCHANGED <<todos, nextId, listeners, faults, issued, other, app, item>>

\* The queries passed to search: none, '', and three of letters in both
\* cases, the last one matching no text.
Queries ==
  { Undefined, Empty, Str(<<"A">>), Str(<<"b", "\t", "C">>),
    Str(<<"c", "B">>) }

search(query) ==
  /\ lastOp' = [Op("search", 0, query, Undefined, NoInstant)
                  EXCEPT !.result = Search(todos, query)]
  /\ toggleRun' = NoRun
  /\ UNCHANGED <<todos, nextId, listeners, localStorage, faults, issued>>
  /\ UNCHANGED <<other, app, item>>

(***************************************************************************)
(* The callers.  An environment says which arguments the callers pass,     *)
(* which callbacks they subscribe and whether localStorage.setItem can     *)
(* throw.  The specifications run the same methods in different            *)
(* environments, each wide in one direction: the data passed, the faults   *)
(* of the store, the callbacks subscribed, faults with a callback, edits   *)
(* with searches.                                                          *)
(***************************************************************************)
DataEnv ==
  [ texts |-> Texts, priorities |-> PriorityArgs, instants |-> {Now},
    callbacks |-> {}, setItemOk |-> {TRUE} ]

FaultEnv ==
  [ texts |-> {Blank, Padded}, priorities |-> {Undefined},
    instants |-> {Now}, callbacks |-> {}, setItemOk |-> BOOLEAN ]

NotifyEnv ==
  [ texts |-> {Empty, Blank, Padded}, priorities |-> {Undefined},
    instants |-> {Now}, callbacks |-> Callbacks, setItemOk |-> {TRUE} ]

OutageEnv ==
  [ texts |-> {Padded}, priorities |-> {Undefined},
    instants |-> {Now}, callbacks |-> {"render"},
    setItemOk |-> BOOLEAN ]

FrameEnv ==
  [ texts |-> {Padded, Inner}, priorities |-> {Undefined},
    instants |-> {Now, Later}, callbacks |-> {}, setItemOk |-> {TRUE} ]

TabsEnv ==
  [ texts |-> {Padded}, priorities |-> {Undefined},
    instants |-> {Now}, callbacks |-> {}, setItemOk |-> {TRUE} ]

EditEnv ==
  [ texts |-> {Padded, Inner}, priorities |-> {Undefined},
    instants |-> {Now}, callbacks |-> {"render"}, setItemOk |-> {TRUE} ]

Searches == \E query \in Queries : search(query)

Subscribes(E) == \E listener \in E.callbacks : subscribe(listener)

Methods(E) ==
  \/ \E text \in E.texts, priority \in E.priorities, now \in E.instants,
        itemsOk \in E.setItemOk, nextIdOk \in E.setItemOk :
       addTodo(text, priority, now, itemsOk, nextIdOk)
  \/ \E id \in Ids, itemsOk \in E.setItemOk, nextIdOk \in E.setItemOk :
       toggleComplete(id, itemsOk, nextIdOk)
  \/ \E id \in Ids, itemsOk \in E.setItemOk, nextIdOk \in E.setItemOk :
       deleteTodo(id, itemsOk, nextIdOk)
  \/ \E id \in Ids, newText \in E.texts, itemsOk \in E.setItemOk,
        nextIdOk \in E.setItemOk :
       updateTodo(id, newText, itemsOk, nextIdOk)
  \/ \E itemsOk \in E.setItemOk, nextIdOk \in E.setItemOk :
       clearCompleted(itemsOk, nextIdOk)
  \/ \E itemsOk \in E.setItemOk, nextIdOk \in E.setItemOk :
       clearAll(itemsOk, nextIdOk)

\* One model, any data, a store that never fails, nobody subscribed.
Next == Methods(DataEnv)
Spec == Init /\ [][Next]_vars

\* One model over a store whose setItem can throw, nobody subscribed.
NextFaults == Methods(FaultEnv)
SpecFaults == Init /\ [][NextFaults]_vars

\* One model with callbacks subscribed, one of which throws.
NextNotify == Subscribes(NotifyEnv) \/ Methods(NotifyEnv)
SpecNotify == Init /\ [][NextNotify]_vars

\* One model with callbacks subscribed, over a store whose setItem can throw.
NextOutage == Subscribes(OutageEnv) \/ Methods(OutageEnv)
SpecOutage == Init /\ [][NextOutage]_vars

\* One model edited and searched, with a callback subscribed.
NextEdit == Subscribes(EditEnv) \/ Methods(EditEnv) \/ Searches
SpecEdit == Init /\ [][NextEdit]_vars

\* One model whose calls come at different instants.
NextFrame == Methods(FrameEnv)
SpecFrame == Init /\ [][NextFrame]_vars

\* One store over reloads of the page, its setItem failing at times.
NextRestart == Methods(FaultEnv) \/ construct
SpecRestart == Init /\ [][NextRestart]_vars

\* A store other scripts write to, and the models constructed on it.
NextStored ==
  \/ \E key \in {"items", "nextId"} :
       \/ \E text \in StoredTexts[key] : setItem(key, text)
       \/ removeItem(key)
  \/ construct
SpecStored == Init /\ [][NextStored]_vars

\* Two tabs on one store.
NextTabs == Methods(TabsEnv) \/ openTab \/ switchTab
SpecTabs == Init /\ [][NextTabs]_vars

\* Two StorageService instances on one localStorage, whose calls may throw,
\* and a script that leaves a text JSON.parse rejects.
InitAdapter ==
  /\ localStorage = [k \in RawKeys |-> Null]
  /\ todos = <<>>
  /\ nextId = Constructed(EmptyLocalStorage).nextId
  /\ listeners = <<>>
  /\ faults = 0
  /\ lastOp = AdapterOp("constructor", <<storageKey>>, <<>>, TRUE)
  /\ issued = {}
  /\ toggleRun = NoRun
  /\ other = NoTab
  /\ app = NoApp
  /\ item = TodoItem

NextAdapter ==
  \/ \E prefix \in Prefixes, key \in Keys, ok \in BOOLEAN :
       \/ \E data \in Data : save(prefix, key, data, ok)
       \/ load(prefix, key, ok)
       \/ remove(prefix, key, ok)
  \/ \E prefix \in Prefixes, removed \in SUBSET RawKeys, ok \in BOOLEAN :
       clear(prefix, removed, ok)
  \/ setItem("items", Malformed)
SpecAdapter == InitAdapter /\ [][NextAdapter]_vars

(***************************************************************************)
(* TodoApp: the controller, constructed on a model of its own.             *)
(***************************************************************************)
\* What the store may hold when the page is opened: nothing, or one task
\* written by an earlier visit.
EarlierVisits ==
  { EmptyLocalStorage,
    ModelSave(EmptyLocalStorage, <<NewTodo(1, Padded, Undefined, Now)>>, 2,
              TRUE, TRUE) }

\* new TodoApp(): the model is constructed on the store, this.todos is the
\* model's array, and the first subscriber is the controller's callback.
InitApp ==
  /\ localStorage \in EarlierVisits
  /\ todos = Constructed(localStorage).todos
  /\ nextId = Constructed(localStorage).nextId
  /\ listeners = <<"controller">>
  /\ faults = 0
  /\ lastOp = Op("constructor", 0, Undefined, Undefined, NoInstant)
  /\ issued = {todos[i].id : i \in 1..Len(todos)}
  /\ toggleRun = NoRun
  /\ other = NoTab
  /\ app = [mounted |-> TRUE, alias |-> TRUE, todos |-> <<>>]
  /\ item = TodoItem

\* confirm(...) answered with Cancel: the handler returns.
Declined(name) ==
  /\ lastOp' = Op(name, 0, Undefined, Undefined, NoInstant)
  /\ toggleRun' = NoRun
  /\ UNCHANGED <<todos, nextId, listeners, localStorage, faults, issued,
                 other, app, item>>

handleAddTodo(text) == addTodo(text, Undefined, Now, TRUE, TRUE)

handleToggleTodo(id) == toggleComplete(id, TRUE, TRUE)

handleDeleteTodo(id) == deleteTodo(id, TRUE, TRUE)

handleUpdateTodo(id, text) == updateTodo(id, text, TRUE, TRUE)

handleClearCompleted(confirmed) ==
  IF confirmed THEN clearCompleted(TRUE, TRUE)
  ELSE Declined("handleClearCompleted")

handleClearAll(confirmed) ==
  IF confirmed THEN clearAll(TRUE, TRUE)
  ELSE Declined("handleClearAll")

\* The texts of the add-todo and update-todo events.
EventTexts == {Blank, Padded}

\* One TodoApp and its user; another callback, which throws, may be
\* subscribed to the model after the controller's.
NextApp ==
  \/ \E text \in EventTexts : handleAddTodo(text)
  \/ \E id \in Ids : handleToggleTodo(id)
  \/ \E id \in Ids : handleDeleteTodo(id)
  \/ \E id \in Ids, text \in EventTexts : handleUpdateTodo(id, text)
  \/ \E confirmed \in BOOLEAN : handleClearCompleted(confirmed)
  \/ \E confirmed \in BOOLEAN : handleClearAll(confirmed)
  \/ subscribe("faulty")
SpecApp == InitApp /\ [][NextApp]_vars

\* One TodoItem and its user.
NextItem ==
  \/ handleEdit
  \/ \E value \in EditValues : input(value)
  \/ handleSave
  \/ handleCancel
  \/ \E key \in EventKeys : handleKeyDown(key)
SpecItem == Init /\ [][NextItem]_vars

(***************************************************************************)
(* What the claims read.                                                   *)
(***************************************************************************)
\* The last call was a mutating method that reached save() and notify().
Mutated(name) == lastOp.op = name /\ lastOp.mutated

\* The text has a character trim() keeps / has none.
HasVisibleChar(text) ==
  text.type = "string" /\ \E i \in 1..Len(text.str) : text.str[i] \notin WhiteSpace
EmptyOrWhitespace(text) ==
  text.type = "string" /\ \A i \in 1..Len(text.str) : text.str[i] \in WhiteSpace

\* What JSON.parse makes of a stored entry.
Persisted(key) == JSONparse(localStorage[FullKey(storageKey, key)].text)

\* The callbacks the last call ran, in the order it ran them.
Called == [i \in 1..Len(lastOp.calls) |-> lastOp.calls[i].callback]

(***************************************************************************)
(* C1. In every state one model reaches from an empty store, no two tasks  *)
(* of the list have the same id.                                           *)
(***************************************************************************)
C1_UniqueIds ==
  \A i, j \in 1..Len(todos) : i # j => todos[i].id # todos[j].id

\* Two tasks in the list, the second just added.
C1_Witness == Mutated("addTodo") /\ Len(todos) = 2

(***************************************************************************)
(* C2. The counter is strictly greater than every id the model has ever    *)
(* issued, whether or not the task that got it is still in the list, and   *)
(* every id in the list is one the model issued: so the id the next        *)
(* addTodo issues is new.                                                  *)
(***************************************************************************)
C2_CounterAboveIssued ==
  /\ \A id \in issued : id < nextId
  /\ \A i \in 1..Len(todos) : todos[i].id \in issued

\* An id was issued, its task removed, and another task added since.
C2_Witness ==
  /\ Mutated("addTodo")
  /\ \E id \in issued : \A i \in 1..Len(todos) : todos[i].id # id

(***************************************************************************)
(* C3. After a mutating method whose two setItem calls both returned, the  *)
(* 'items' entry parses to the in-memory list and the 'nextId' entry to    *)
(* the in-memory counter.                                                  *)
(***************************************************************************)
C3_SnapshotPersisted ==
  (lastOp.mutated /\ lastOp.wrote = <<TRUE, TRUE>>) =>
    /\ localStorage[FullKey(storageKey, "items")].present
    /\ Persisted("items").ok
    /\ Persisted("items").val = todos
    /\ localStorage[FullKey(storageKey, "nextId")].present
    /\ Persisted("nextId").ok
    /\ Persisted("nextId").val = nextId

\* A full write of a non-empty list after an earlier setItem threw.
C3_Witness ==
  /\ lastOp.mutated
  /\ lastOp.wrote = <<TRUE, TRUE>>
  /\ faults > 0
  /\ todos # <<>>

(***************************************************************************)
(* C4. Round trip: while every setItem has returned, a model constructed   *)
(* on the store has the list of this model, in content and order, and its  *)
(* counter.                                                                *)
(***************************************************************************)
C4_RoundTrip ==
  faults = 0 =>
    /\ Constructed(localStorage).todos = todos
    /\ Constructed(localStorage).nextId = nextId

\* Two tasks, one completed, one whose text JSON.stringify has to escape.
C4_Witness ==
  /\ Len(todos) = 2
  /\ \E i \in 1..2 : todos[i].text = Inner.str
  /\ \E i \in 1..2 : todos[i].completed
  /\ \E i \in 1..2 : todos[i].priority = <<"high">>

(***************************************************************************)
(* C5. A mutating method that reaches notify() and returns has run every   *)
(* registered callback, once per registration, in registration order,      *)
(* each with no arguments.                                                 *)
(***************************************************************************)
C5_EverySubscriberInOrder ==
  (lastOp.mutated /\ lastOp.ret = "returned") =>
    /\ Called = listeners
    /\ \A i \in 1..Len(lastOp.calls) : lastOp.calls[i].args = <<>>

\* Two different callbacks were registered and the method returned.
C5_Witness ==
  /\ lastOp.mutated
  /\ lastOp.ret = "returned"
  /\ Len(lastOp.calls) = 2
  /\ lastOp.calls[1].callback # lastOp.calls[2].callback

(***************************************************************************)
(* C6. Mutation, then save(), then notify(): what a callback reads while   *)
(* it runs is the list, the counter and the store the method leaves, and   *)
(* when both setItem calls returned that store holds that list and         *)
(* counter.                                                                *)
(***************************************************************************)
C6_SubscribersSeeTheResult ==
  \A i \in 1..Len(lastOp.calls) :
    LET c == lastOp.calls[i]
    IN /\ c.todos = todos
       /\ c.nextId = nextId
       /\ c.localStorage = localStorage
       /\ lastOp.wrote = <<TRUE, TRUE>> =>
            /\ Constructed(c.localStorage).todos = todos
            /\ Constructed(c.localStorage).nextId = nextId

\* A callback ran for a toggleComplete.
C6_Witness == Mutated("toggleComplete") /\ Len(lastOp.calls) >= 1

(***************************************************************************)
(* C7. addTodo(text, priority) with a text that trims to something adds    *)
(* exactly one task, after all the others, which stay as they were; the    *)
(* new task has the trimmed text, completed = false, the priority passed   *)
(* ('medium' when omitted) and the counter's value before the call as id.  *)
(***************************************************************************)
C7_AddAppendsOneTask ==
  [][ (lastOp'.op = "addTodo" /\ HasVisibleChar(lastOp'.text)) =>
        /\ Len(todos') = Len(todos) + 1
        /\ SubSeq(todos', 1, Len(todos)) = todos
        /\ LET new == todos'[Len(todos')]
           IN /\ new.text = trim(lastOp'.text.str)
              /\ new.completed = FALSE
              /\ new.priority = IF lastOp'.priority = Undefined
                                THEN <<"medium">>
                                ELSE lastOp'.priority.str
              /\ new.id = nextId ]_vars

\* A padded text added with the priority omitted, to a list that had a task.
C7_Witness ==
  /\ Mutated("addTodo")
  /\ lastOp.text = Padded
  /\ lastOp.priority = Undefined
  /\ Len(todos) = 2

(***************************************************************************)
(* C8. addTodo with an empty or whitespace-only text changes nothing: not  *)
(* the list, not the counter, not the store; and it runs no callback.      *)
(***************************************************************************)
C8_BlankAddIsNoOp ==
  [][ (lastOp'.op = "addTodo" /\ EmptyOrWhitespace(lastOp'.text)) =>
        /\ todos' = todos
        /\ nextId' = nextId
        /\ localStorage' = localStorage
        /\ lastOp'.calls = <<>> ]_vars

\* A whitespace-only text passed to a model with tasks and subscribers.
C8_Witness ==
  /\ lastOp.op = "addTodo"
  /\ lastOp.text = Blank
  /\ listeners # <<>>
  /\ todos # <<>>

(***************************************************************************)
(* C9. Every task's text is non-empty and neither starts nor ends with     *)
(* whitespace, whatever was passed to addTodo and updateTodo.              *)
(***************************************************************************)
C9_TextsTrimmed ==
  \A i \in 1..Len(todos) :
    /\ todos[i].text # <<>>
    /\ todos[i].text[1] \notin WhiteSpace
    /\ todos[i].text[Len(todos[i].text)] \notin WhiteSpace

\* updateTodo was passed a padded text and took it.
C9_Witness == Mutated("updateTodo") /\ lastOp.text = Padded

(***************************************************************************)
(* C10. toggleComplete(id) twice in succession on an id in the list        *)
(* leaves the list as it was before the two calls, the task's completed    *)
(* flag included.                                                          *)
(***************************************************************************)
C10_DoubleToggle == toggleRun.n = 2 => todos = toggleRun.start

\* The second of two toggleComplete calls on a task of a two-task list.
C10_Witness == toggleRun.n = 2 /\ Len(todos) = 2

(***************************************************************************)
(* C11. toggleComplete(id) with an id no task has changes nothing: not     *)
(* the list, not the counter, not the store; and it runs no callback.      *)
(***************************************************************************)
C11_ToggleUnknownIsNoOp ==
  [][ (/\ lastOp'.op = "toggleComplete"
       /\ \A i \in 1..Len(todos) : todos[i].id # lastOp'.id) =>
        /\ todos' = todos
        /\ nextId' = nextId
        /\ localStorage' = localStorage
        /\ lastOp'.calls = <<>> ]_vars

\* toggleComplete was passed an id never issued, with tasks in the list and
\* callbacks subscribed.
C11_Witness ==
  /\ lastOp.op = "toggleComplete"
  /\ lastOp.id \notin issued
  /\ todos # <<>>
  /\ listeners # <<>>

(***************************************************************************)
(* C12. activeCount + completedCount is the number of tasks; activeCount   *)
(* is the number of tasks with completed = false and completedCount the    *)
(* number with completed = true.                                           *)
(***************************************************************************)
C12_CountsPartitionTheList ==
  /\ activeCount + completedCount = Len(todos)
  /\ activeCount =
       Cardinality({i \in 1..Len(todos) : todos[i].completed = FALSE})
  /\ completedCount =
       Cardinality({i \in 1..Len(todos) : todos[i].completed = TRUE})

\* One task completed and one not.
C12_Witness ==
  /\ Len(todos) = 2
  /\ activeCount = 1
  /\ completedCount = 1

(***************************************************************************)
(* C13. deleteTodo(id) with an id a task has removes that task and no      *)
(* other: the list is one shorter and is the previous list without the     *)
(* task, the others unchanged and in the same order.                       *)
(***************************************************************************)
C13_DeleteRemovesOneTask ==
  [][ (/\ lastOp'.op = "deleteTodo"
       /\ \E i \in 1..Len(todos) : todos[i].id = lastOp'.id) =>
        /\ Len(todos') = Len(todos) - 1
        /\ \E i \in 1..Len(todos) :
             /\ todos[i].id = lastOp'.id
             /\ todos' = SubSeq(todos, 1, i - 1)
                           \o SubSeq(todos, i + 1, Len(todos)) ]_vars

\* The first of two tasks was deleted and the second is still there.
C13_Witness ==
  /\ lastOp.op = "deleteTodo"
  /\ lastOp.id \in issued
  /\ Len(todos) = 1
  /\ todos[1].id > lastOp.id

(***************************************************************************)
(* C16. updateTodo(id, newText) with an id no task has, or with a newText  *)
(* that is empty or whitespace-only, changes nothing: not the list (so no  *)
(* task's text), not the counter, not the store; and it runs no callback.  *)
(***************************************************************************)
C16_UpdateRejectedIsNoOp ==
  [][ (/\ lastOp'.op = "updateTodo"
       /\ \/ \A i \in 1..Len(todos) : todos[i].id # lastOp'.id
          \/ EmptyOrWhitespace(lastOp'.text)) =>
        /\ todos' = todos
        /\ nextId' = nextId
        /\ localStorage' = localStorage
        /\ lastOp'.calls = <<>> ]_vars

\* updateTodo was passed the id of a task and a whitespace-only text, with
\* callbacks subscribed.
C16_Witness ==
  /\ lastOp.op = "updateTodo"
  /\ lastOp.text = Blank
  /\ \E i \in 1..Len(todos) : todos[i].id = lastOp.id
  /\ listeners # <<>>

(***************************************************************************)
(* C17. Right after clearCompleted(), completedCount is 0 and activeCount  *)
(* is the number of tasks; the list is the previous list's not-completed   *)
(* tasks, unchanged and in order; and the call has written the snapshot    *)
(* and run the callbacks, whether or not a task was completed.             *)
(***************************************************************************)
C17_ClearCompleted ==
  /\ [][ lastOp'.op = "clearCompleted" =>
           /\ completedCount' = 0
           /\ activeCount' = Len(todos')
           /\ todos' = SelectSeq(todos, LAMBDA t : t.completed = FALSE)
           /\ lastOp'.mutated
           /\ listeners # <<>> => lastOp'.calls # <<>>
           /\ lastOp'.ret = "returned" => Called' = listeners ]_vars
  /\ [](lastOp.op = "clearCompleted" =>
           /\ localStorage[FullKey(storageKey, "items")].present
           /\ Persisted("items").val = todos
           /\ Persisted("nextId").val = nextId)

\* clearCompleted ran with callbacks subscribed and every task ever added
\* still in the list: none was completed.
C17_Witness ==
  /\ Mutated("clearCompleted")
  /\ todos # <<>>
  /\ \A id \in issued : \E i \in 1..Len(todos) : todos[i].id = id
  /\ Len(lastOp.calls) >= 1

(***************************************************************************)
(* C18. clearAll() leaves the list empty, and it writes the snapshot and   *)
(* runs the callbacks also when the list was empty before.                 *)
(***************************************************************************)
C18_ClearAll ==
  [][ lastOp'.op = "clearAll" =>
        /\ todos' = <<>>
        /\ lastOp'.mutated
        /\ localStorage'[FullKey(storageKey, "items")].present
        /\ Persisted("items")'.val = <<>>
        /\ Persisted("nextId")'.val = nextId'
        /\ listeners # <<>> => lastOp'.calls # <<>>
        /\ lastOp'.ret = "returned" => Called' = listeners ]_vars

\* clearAll ran on a model that never had a task, with callbacks subscribed.
C18_Witness ==
  /\ Mutated("clearAll")
  /\ issued = {}
  /\ Len(lastOp.calls) >= 1

(***************************************************************************)
(* C14. deleteTodo(id) with an id no task has leaves the list as it was,   *)
(* in content and order, and still runs save() -- each entry whose         *)
(* setItem returns then holds the JSON text of the list or of the counter  *)
(* -- and every callback.  A second deleteTodo(id) right after a first     *)
(* leaves the list the first left.                                         *)
(***************************************************************************)
C14_DeleteUnknownStillSaves ==
  [][ /\ (/\ lastOp'.op = "deleteTodo"
          /\ \A i \in 1..Len(todos) : todos[i].id # lastOp'.id) =>
           /\ todos' = todos
           /\ nextId' = nextId
           /\ lastOp'.mutated
           /\ Len(lastOp'.wrote) = 2
           /\ lastOp'.wrote[1] =>
                localStorage'[FullKey(storageKey, "items")]
                  = Item(StringifyTodos(todos))
           /\ lastOp'.wrote[2] =>
                localStorage'[FullKey(storageKey, "nextId")]
                  = Item(StringifyNumber(nextId))
           /\ Called' = listeners
      /\ (/\ lastOp.op = "deleteTodo"
          /\ lastOp'.op = "deleteTodo"
          /\ lastOp'.id = lastOp.id) => todos' = todos ]_vars

\* deleteTodo was passed an id never issued; its writes returned, after an
\* earlier one had failed, and a callback ran.
C14_Witness ==
  /\ Mutated("deleteTodo")
  /\ lastOp.id \notin issued
  /\ todos # <<>>
  /\ faults > 0
  /\ lastOp.wrote = <<TRUE, TRUE>>
  /\ Len(lastOp.calls) >= 1

\* What the step's method does to the list and the counter.
InMemoryEffect ==
  CASE lastOp'.op = "addTodo" ->
         /\ Len(todos') = Len(todos) + 1
         /\ nextId' = nextId + 1
    [] lastOp'.op = "toggleComplete" ->
         \E i \in 1..Len(todos) :
           /\ todos[i].id = lastOp'.id
           /\ todos'[i].completed = ~todos[i].completed
    [] lastOp'.op = "deleteTodo" ->
         \A i \in 1..Len(todos') : todos'[i].id # lastOp'.id
    [] lastOp'.op = "updateTodo" ->
         \E i \in 1..Len(todos) :
           /\ todos[i].id = lastOp'.id
           /\ todos'[i].text = trim(lastOp'.text.str)
    [] lastOp'.op = "clearCompleted" ->
         \A i \in 1..Len(todos') : ~todos'[i].completed
    [] lastOp'.op = "clearAll" -> todos' = <<>>

(***************************************************************************)
(* C20. When a setItem of a mutating method throws, the method still       *)
(* changes the list and the counter and still runs every callback; the     *)
(* entry whose write failed keeps the text it had, and an entry whose      *)
(* write returned holds the new JSON text.                                 *)
(***************************************************************************)
C20_FailedWriteDiverges ==
  [][ (lastOp'.mutated /\ lastOp'.wrote # <<TRUE, TRUE>>) =>
        /\ InMemoryEffect
        /\ Called' = listeners
        /\ IF lastOp'.wrote[1]
           THEN localStorage'[FullKey(storageKey, "items")]
                  = Item(StringifyTodos(todos'))
           ELSE localStorage'[FullKey(storageKey, "items")]
                  = localStorage[FullKey(storageKey, "items")]
        /\ IF lastOp'.wrote[2]
           THEN localStorage'[FullKey(storageKey, "nextId")]
                  = Item(StringifyNumber(nextId'))
           ELSE localStorage'[FullKey(storageKey, "nextId")]
                  = localStorage[FullKey(storageKey, "nextId")] ]_vars

\* The second addTodo failed to write 'items': two tasks in memory, one in
\* the store, and the callback ran.
C20_Witness ==
  /\ Mutated("addTodo")
  /\ lastOp.wrote = <<FALSE, TRUE>>
  /\ Len(todos) = 2
  /\ Len(Persisted("items").val) = 1
  /\ Len(lastOp.calls) >= 1

(***************************************************************************)
(* C15. updateTodo(id, newText) with an id a task has and a newText that   *)
(* trims to something sets that task's text to the trimmed newText and     *)
(* nothing else, then writes the snapshot and runs every callback.         *)
(***************************************************************************)
C15_UpdateSetsTrimmedText ==
  /\ [][ (/\ lastOp'.op = "updateTodo"
          /\ \E i \in 1..Len(todos) : todos[i].id = lastOp'.id
          /\ HasVisibleChar(lastOp'.text)) =>
           /\ \E i \in 1..Len(todos) :
                /\ todos[i].id = lastOp'.id
                /\ todos' = [todos EXCEPT ![i].text = trim(lastOp'.text.str)]
           /\ nextId' = nextId
           /\ lastOp'.mutated
           /\ lastOp'.wrote = <<TRUE, TRUE>>
           /\ Called' = listeners ]_vars
  /\ [](Mutated("updateTodo") =>
           /\ Persisted("items").val = todos
           /\ Persisted("nextId").val = nextId)

\* The second of two tasks was given another text, passed with an inner tab,
\* and the callback ran.
C15_Witness ==
  /\ Mutated("updateTodo")
  /\ lastOp.text = Inner
  /\ Len(todos) = 2
  /\ todos[2].id = lastOp.id
  /\ todos[2].text = Inner.str
  /\ todos[1].text # Inner.str
  /\ Len(lastOp.calls) >= 1

\* Two characters that are the same letter, case aside.
SameLetter(a, b) ==
  a = b \/ {a, b} \in {{"a", "A"}, {"b", "B"}, {"c", "C"}}

\* The text s has the query q in it, case aside.
ContainsIgnoringCase(s, q) ==
  \E k \in 0..(Len(s) - Len(q)) :
    \A j \in 1..Len(q) : SameLetter(s[k + j], q[j])

(***************************************************************************)
(* C19. search changes nothing and runs no callback.  search() and         *)
(* search('') return the list, in content and order; search(query) with a  *)
(* non-empty query returns, in list order, the tasks whose text contains   *)
(* the query, letter case ignored.                                         *)
(***************************************************************************)
C19_SearchIsPureRead ==
  [][ lastOp'.op = "search" =>
        /\ todos' = todos
        /\ nextId' = nextId
        /\ localStorage' = localStorage
        /\ lastOp'.calls = <<>>
        /\ lastOp'.result =
             IF lastOp'.text = Undefined \/ lastOp'.text.str = <<>>
             THEN todos
             ELSE SelectSeq(todos, LAMBDA t :
                    ContainsIgnoringCase(t.text, lastOp'.text.str)) ]_vars

\* search('b\tC') on two tasks found the one with text 'B\tc', with a
\* callback subscribed.
C19_Witness ==
  /\ lastOp.op = "search"
  /\ lastOp.text = Str(<<"b", "\t", "C">>)
  /\ Len(todos) = 2
  /\ Len(lastOp.result) = 1
  /\ lastOp.result[1].text = Inner.str
  /\ listeners # <<>>

(***************************************************************************)
(* C21. No method of the model surfaces an error to its caller, whatever   *)
(* the store does and whatever callbacks are subscribed: every call        *)
(* returns.                                                                *)
(***************************************************************************)
C21_NoErrorSurfaced == lastOp.ret = "returned"

\* The first registered callback that throws.
FirstThrower ==
  CHOOSE k \in 1..Len(listeners) :
    Throws(listeners[k]) /\ \A j \in 1..(k - 1) : ~Throws(listeners[j])

(***************************************************************************)
(* C27. When a callback throws during notify(), the callbacks registered   *)
(* after it are not run for that call, while the call's change of the      *)
(* list and its writes to the store have happened and stay.                *)
(***************************************************************************)
C27_ThrowAbortsNotification ==
  /\ [][ (lastOp'.mutated /\ \E k \in 1..Len(listeners) : Throws(listeners[k]))
           => /\ lastOp'.ret = "threw"
              /\ Called' = SubSeq(listeners, 1, FirstThrower)
              /\ InMemoryEffect
              /\ lastOp'.wrote = <<TRUE, TRUE>> ]_vars
  /\ [](lastOp.ret = "threw" =>
          /\ Persisted("items").val = todos
          /\ Persisted("nextId").val = nextId)

\* addTodo with the throwing callback registered first and another after
\* it: one callback ran, and the task is in the list and in the store.
C27_Witness ==
  /\ Mutated("addTodo")
  /\ lastOp.ret = "threw"
  /\ Len(listeners) = 2
  /\ Throws(listeners[1])
  /\ ~Throws(listeners[2])
  /\ Len(lastOp.calls) = 1
  /\ Len(Persisted("items").val) = Len(todos)
  /\ todos # <<>>

(***************************************************************************)
(* C28. toggleComplete changes the completed flag of the task it finds and *)
(* nothing else, updateTodo its text and nothing else: the task's id,      *)
(* priority and createdAt, the other tasks, the order and the counter      *)
(* stay.  No step changes the createdAt of a task that stays in the list.  *)
(***************************************************************************)
C28_OnlyTheFieldChanges ==
  [][ /\ Mutated("toggleComplete")' =>
           /\ nextId' = nextId
           /\ \E i \in 1..Len(todos) :
                /\ todos[i].id = lastOp'.id
                /\ todos' = [todos EXCEPT
                               ![i].completed = ~todos[i].completed]
      /\ Mutated("updateTodo")' =>
           /\ nextId' = nextId
           /\ Len(todos') = Len(todos)
           /\ \E i \in 1..Len(todos) :
                /\ todos[i].id = lastOp'.id
                /\ todos' = [todos EXCEPT ![i].text = todos'[i].text]
      /\ \A i \in 1..Len(todos), j \in 1..Len(todos') :
           todos[i].id = todos'[j].id =>
             todos'[j].createdAt = todos[i].createdAt ]_vars

\* Two tasks created at different instants, the later one toggled.
C28_Witness ==
  /\ Mutated("toggleComplete")
  /\ Len(todos) = 2
  /\ todos[1].createdAt = Now
  /\ todos[2].createdAt = Later
  /\ todos[2].id = lastOp.id
  /\ todos[2].completed

\* The entry under key holds JSON that parses.
WellFormed(key) ==
  /\ localStorage[FullKey(storageKey, key)].present
  /\ Persisted(key).ok

(***************************************************************************)
(* C24. A model constructed on a store whose 'items' entry is well-formed  *)
(* JSON but not an array has the empty list, and one constructed on a      *)
(* store whose 'nextId' entry is well-formed JSON but not a positive       *)
(* integer has the counter 1: the state of a model on an empty store.      *)
(***************************************************************************)
C24_WrongShapeIsAbsence ==
  lastOp.op = "constructor" =>
    /\ (/\ WellFormed("items")
        /\ Head(localStorage[FullKey(storageKey, "items")].text).k # "[")
         => todos = Constructed(EmptyLocalStorage).todos
    /\ (/\ WellFormed("nextId")
        /\ LET t == Head(localStorage[FullKey(storageKey, "nextId")].text)
           IN t.k # "num" \/ Number(t.v) < 1)
         => nextId = Constructed(EmptyLocalStorage).nextId

(***************************************************************************)
(* C25. Over the methods and reloads on one store, each setItem failing or *)
(* not on its own, the counter of a model is greater than every id in its  *)
(* list -- so also right after the constructor loaded both -- and no two   *)
(* tasks of the list get the same id.                                      *)
(***************************************************************************)
C25_LoadedCounterAboveLoadedIds ==
  /\ \A i \in 1..Len(todos) : todos[i].id < nextId
  /\ \A i \in 1..Len(todos) : \A j \in (i + 1)..Len(todos) :
       todos[i].id # todos[j].id

(***************************************************************************)
(* C26. With two models on one store, a mutating method leaves in the      *)
(* store the list and the counter of the model it was called on, whatever  *)
(* the other model had written: nothing is merged.  The other model does   *)
(* not change, and addTodo takes the id from the counter of its own model. *)
(***************************************************************************)
C26_LastWriterWins ==
  /\ [][ lastOp'.mutated =>
           /\ localStorage'[FullKey(storageKey, "items")]
                = Item(StringifyTodos(todos'))
           /\ localStorage'[FullKey(storageKey, "nextId")]
                = Item(StringifyNumber(nextId'))
           /\ other' = other
           /\ lastOp'.op = "addTodo" =>
                /\ todos'[Len(todos')].id = nextId
                /\ nextId' = nextId + 1 ]_vars
  /\ [](lastOp.mutated =>
           /\ Persisted("items").val = todos
           /\ Persisted("nextId").val = nextId)

\* Each tab added a task of its own, both with id 1, and one tab completed
\* its task; the store holds the list of the tab that wrote last.
C26_Witness ==
  /\ other.open
  /\ lastOp.mutated
  /\ Len(todos) = 1
  /\ Len(other.todos) = 1
  /\ todos[1].id = other.todos[1].id
  /\ todos[1].completed # other.todos[1].completed
  /\ Persisted("items").val = todos

(***************************************************************************)
(* C22. save, load, remove and clear of a StorageService return to their   *)
(* caller also when the call on localStorage throws.  load returns the     *)
(* defaultValue when the entry is absent, when its text does not parse and *)
(* when the read throws, and the parsed value of the text otherwise.       *)
(***************************************************************************)
C22_AdapterSwallowsFailures ==
  [][ /\ lastOp'.op \in {"save", "load", "remove", "clear"} =>
           lastOp'.ret = "returned"
      /\ lastOp'.op = "load" =>
           LET entry == localStorage[lastOp'.prefix \o <<"_">> \o lastOp'.key]
           IN /\ ~lastOp'.ok => lastOp'.result = DefaultValue
              /\ ~entry.present => lastOp'.result = DefaultValue
              /\ ~JSONparse(entry.text).ok => lastOp'.result = DefaultValue
              /\ (/\ lastOp'.ok
                  /\ entry.present
                  /\ JSONparse(entry.text).ok)
                   => lastOp'.result = JSONparse(entry.text).val
              /\ localStorage' = localStorage ]_vars

\* load found a text that does not parse and returned the defaultValue,
\* with a saved value under another key.
C22_Witness ==
  /\ lastOp.op = "load"
  /\ lastOp.ok
  /\ localStorage[fullKey(lastOp.prefix, lastOp.key)] = Item(Malformed)
  /\ lastOp.result = DefaultValue
  /\ \E k \in RawKeys : localStorage[k] = Item(StringifyNumber(2))

(***************************************************************************)
(* C23. save, remove and clear on a StorageService leave every entry of a  *)
(* StorageService with another prefix as it was, so what load returns on   *)
(* the other is unchanged.                                                 *)
(***************************************************************************)
C23_PrefixesAreIsolated ==
  [][ lastOp'.op \in {"save", "remove", "clear"} =>
        \A prefix \in Prefixes \ {lastOp'.prefix} : \A key \in Keys :
          localStorage'[fullKey(prefix, key)]
            = localStorage[fullKey(prefix, key)] ]_vars

\* The last handler was a save (the button, or Enter) / a cancel (the
\* button, or Escape).
SaveRequested ==
  \/ lastOp.op = "handleSave"
  \/ lastOp.op = "handleKeyDown" /\ lastOp.text = Str(<<"Enter">>)
CancelRequested ==
  \/ lastOp.op = "handleCancel"
  \/ lastOp.op = "handleKeyDown" /\ lastOp.text = Str(<<"Escape">>)

(***************************************************************************)
(* C29. A TodoItem starts in Viewing.  Edit-start takes it from Viewing to *)
(* Editing.  Cancel, or Escape, takes it from Editing to Viewing and emits *)
(* nothing.  Save, or Enter, on a text that trims to something emits one   *)
(* update-todo event with the trimmed text and takes it to Viewing; on an  *)
(* empty or whitespace-only text it emits nothing and the item stays in    *)
(* Editing.                                                                *)
(***************************************************************************)
C29_ViewingEditing ==
  /\ ~item.isEditing
  /\ [][ /\ lastOp'.op = "handleEdit" =>
              /\ ~item.isEditing
              /\ item'.isEditing
              /\ item'.events = item.events
         /\ CancelRequested' =>
              /\ item.isEditing
              /\ ~item'.isEditing
              /\ item'.events = item.events
         /\ (SaveRequested' /\ HasVisibleChar(Str(item.editValue))) =>
              /\ item.isEditing
              /\ ~item'.isEditing
              /\ item'.events =
                   Append(item.events, [ type |-> "update-todo",
                                         id |-> ItemTodo.id,
                                         text |-> trim(item.editValue) ])
         /\ (SaveRequested' /\ EmptyOrWhitespace(Str(item.editValue))) =>
              /\ item'.isEditing
              /\ item'.events = item.events ]_vars

\* Enter on a padded text: the item is back in Viewing and its second event
\* carries the text without the padding.
C29_Witness ==
  /\ lastOp.op = "handleKeyDown"
  /\ lastOp.text = Str(<<"Enter">>)
  /\ ~item.isEditing
  /\ item.editValue = Padded.str
  /\ Len(item.events) = 2
  /\ item.events[2].text = trim(Padded.str)

(***************************************************************************)
(* C30. After every model operation invoked through the controller, the    *)
(* controller's todos holds the same tasks in the same order as the        *)
(* model's list, also when the operation returned early and notified       *)
(* nobody.                                                                 *)
(***************************************************************************)
C30_SnapshotFollowsModel == app.mounted => AppTodos = todos

\* A blank add returned early while the controller holds a copy of a list
\* with a task in it.
C30_Witness ==
  /\ app.mounted
  /\ ~app.alias
  /\ lastOp.op = "addTodo"
  /\ ~lastOp.mutated
  /\ lastOp.calls = <<>>
  /\ Len(todos) >= 1
  /\ app.todos = todos

====
